---- MODULE Spec2Model ----
(***************************************************************************)
(* Model of app.py: the DDL-conversion pipeline of the dashboard.          *)
(*   - ai_query: the inference client (credential check, one POST,         *)
(*     normalization of the response shapes, code-fence clean-up);         *)
(*   - analyze_conversion_changes: the change summarizer;                  *)
(*   - file_reader_tab: token save, load of all files, the batch           *)
(*     conversion loop over the loaded records;                            *)
(*   - main: token clear.                                                  *)
(* Python values that may be None or of several JSON types are tagged      *)
(* records [t, v]; Python str values are TLA+ strings.  The source's       *)
(* cross-mark emoji (U+274C) is written "[X]" because the module is ASCII. *)
(***************************************************************************)
EXTENDS Integers, Sequences, FiniteSets, TLC

\* ------------------------------------------------------------------------
\* Python / JSON values
\* ------------------------------------------------------------------------
JNull == [t |-> "null", v |-> 0]
JStr(s) == [t |-> "str", v |-> s]
JNum(n) == [t |-> "int", v |-> n]
JList(s) == [t |-> "list", v |-> s]
\* a dict is the sequence of its <<key, value>> items, in insertion order
JDict(items) == [t |-> "dict", v |-> items]
\* marker of an exception raised inside the normalization's try block
Raised == [t |-> "raise", v |-> 0]

IsStr(x) == x.t = "str"
IsList(x) == x.t = "list"
IsDict(x) == x.t = "dict"

\* Python truth value of x
Truthy(x) ==
  CASE x.t = "null" -> FALSE
    [] x.t = "str" -> x.v # ""
    [] x.t = "int" -> x.v # 0
    [] x.t = "list" -> x.v # <<>>
    [] x.t = "dict" -> x.v # <<>>
    [] OTHER -> FALSE

\* a or b
PyOr(a, b) == IF Truthy(a) THEN a ELSE b

\* k in d
Has(d, k) == \E i \in 1..Len(d.v) : d.v[i][1] = k

\* d.get(k, default)
GetD(d, k, default) ==
  IF Has(d, k)
    THEN d.v[CHOOSE i \in 1..Len(d.v) : d.v[i][1] = k][2]
    ELSE default

\* d.get(k)
Get(d, k) == GetD(d, k, JNull)

\* x[0] raises for a dict without key 0 (KeyError) and for a number or None
\* (TypeError); it is the first element of a list, the first character of a str
Item0Raises(x) == x.t \notin {"list", "str"}

Item0(x) == IF x.t = "list" THEN x.v[1] ELSE JStr(SubSeq(x.v, 1, 1))

\* ------------------------------------------------------------------------
\* str()
\* ------------------------------------------------------------------------
Digit(n) == SubSeq("0123456789", n + 1, n + 1)

RECURSIVE IntStr(_)
IntStr(n) == IF n < 0 THEN "-" \o IntStr(0 - n)
             ELSE IF n < 10 THEN Digit(n)
             ELSE IntStr(n \div 10) \o Digit(n % 10)

RECURSIVE PyRepr(_)
RECURSIVE ReprItems(_, _, _)
\* the ", "-joined reprs of the elements from the i-th on of a list
\* (isdict = FALSE) or of the 'key': value items of a dict (isdict = TRUE)
ReprItems(s, i, isdict) ==
  IF i > Len(s) THEN ""
  ELSE (IF isdict THEN "'" \o s[i][1] \o "': " \o PyRepr(s[i][2])
        ELSE PyRepr(s[i]))
       \o (IF i < Len(s) THEN ", " ELSE "")
       \o ReprItems(s, i + 1, isdict)

\* repr(x), for strings without quotes or escapes
PyRepr(x) ==
  CASE x.t = "null" -> "None"
    [] x.t = "str" -> "'" \o x.v \o "'"
    [] x.t = "int" -> IntStr(x.v)
    [] x.t = "list" -> "[" \o ReprItems(x.v, 1, FALSE) \o "]"
    [] x.t = "dict" -> "{" \o ReprItems(x.v, 1, TRUE) \o "}"

\* str(x)
PyStr(x) == IF IsStr(x) THEN x.v ELSE PyRepr(x)

\* ------------------------------------------------------------------------
\* str methods
\* ------------------------------------------------------------------------
IsSpace(c) == c \in {" ", "\t", "\n", "\r", "\f"}

\* The one element of a singleton set.  Operators below bind an argument
\* to its value with "x \in {arg}", so that it is evaluated once.
The(S) == CHOOSE x \in S : TRUE

\* s.strip(): from the first to the last character that is no white space
Strip(s) ==
  The({LET solid == {i \in 1..Len(x) : ~IsSpace(SubSeq(x, i, i))}
       IN IF solid = {} THEN ""
          ELSE SubSeq(x, CHOOSE i \in solid : \A j \in solid : i <= j,
                         CHOOSE i \in solid : \A j \in solid : i >= j)
       : x \in {s}})

\* s.startswith(p)
StartsWith(s, p) == Len(s) >= Len(p) /\ SubSeq(s, 1, Len(p)) = p

\* s.endswith(p)
EndsWith(s, p) == Len(s) >= Len(p) /\ SubSeq(s, Len(s) - Len(p) + 1, Len(s)) = p

\* variant: sub is looked for at the start of s only
ContainsAtStart(s, sub) == Len(s) >= Len(sub) /\ SubSeq(s, 1, Len(sub)) = sub

\* sub in s
Contains(s, sub) ==
  \E i \in 1..(Len(s) - Len(sub) + 1) : SubSeq(s, i, i + Len(sub) - 1) = sub

Lower == "abcdefghijklmnopqrstuvwxyz"
Caps == "ABCDEFGHIJKLMNOPQRSTUVWXYZ"

UpperChar(c) ==
  IF \E i \in 1..26 : SubSeq(Lower, i, i) = c
    THEN LET i == CHOOSE j \in 1..26 : SubSeq(Lower, j, j) = c
         IN SubSeq(Caps, i, i)
    ELSE c

\* variant: the text is compared as written, without folding the case
UpperAsWritten(s) == s

\* s.upper(): from[i] is the upper case of s from its i-th character on
Upper(s) ==
  The({LET from[i \in 1..(Len(x) + 1)] ==
             IF i > Len(x) THEN ""
             ELSE UpperChar(SubSeq(x, i, i)) \o from[i + 1]
       IN from[1]
       : x \in {s}})

\* s.replace(' ', '')
RemoveSpaces(s) ==
  The({LET from[i \in 1..(Len(x) + 1)] ==
             IF i > Len(x) THEN ""
             ELSE (IF SubSeq(x, i, i) = " " THEN "" ELSE SubSeq(x, i, i))
                  \o from[i + 1]
       IN from[1]
       : x \in {s}})

\* ------------------------------------------------------------------------
\* ai_query: normalization of the response body (result = response.json())
\* ------------------------------------------------------------------------
\* "".join(parts), for parts that are all str
JoinParts(parts) ==
  The({LET from[i \in 1..(Len(x) + 1)] ==
             IF i > Len(x) THEN "" ELSE x[i].v \o from[i + 1]
       IN from[1]
       : x \in {parts}})

\* what the loop over a list-valued message content appends for one segment
SegPart(seg) ==
  IF IsStr(seg) THEN seg
  ELSE IF IsDict(seg)
    THEN PyOr(PyOr(Get(seg, "text"), Get(seg, "content")), JStr(""))
    ELSE JStr(PyStr(seg))

\* the branch for message content that is a list: join raises TypeError
\* when a part is not a str
JoinSegments(raw) ==
  LET parts == [i \in 1..Len(raw.v) |-> SegPart(raw.v[i])]
  IN IF \A i \in 1..Len(parts) : IsStr(parts[i])
       THEN JStr(JoinParts(parts))
       ELSE Raised

\* the branch taken when the first choice is a dict
FromFirstChoice(first_choice) ==
  IF Has(first_choice, "message") /\ IsDict(Get(first_choice, "message"))
    THEN LET raw == GetD(Get(first_choice, "message"), "content", JStr(""))
         IN IF IsList(raw) THEN JoinSegments(raw) ELSE PyOr(raw, JStr(""))
    ELSE IF Has(first_choice, "text")
      THEN GetD(first_choice, "text", JStr(""))
      ELSE JStr(PyStr(first_choice))

\* the branch for predictions[0]
FromPrediction(pred) ==
  IF IsDict(pred)
    THEN PyOr(PyOr(Get(pred, "text"), Get(pred, "output")), JStr(PyStr(pred)))
    ELSE JStr(PyStr(pred))

\* the if/elif chain inside the try block: the value of content when the
\* block ends, or Raised
ExtractContent(result) ==
  IF IsDict(result) /\ Has(result, "choices") /\ Truthy(Get(result, "choices"))
    THEN IF Item0Raises(Get(result, "choices"))
           THEN Raised
           ELSE LET first_choice == Item0(Get(result, "choices"))
                IN IF IsDict(first_choice)
                     THEN FromFirstChoice(first_choice)
                     ELSE JStr("")
  ELSE IF IsDict(result) /\ Has(result, "text")
    THEN GetD(result, "text", JStr(""))
  ELSE IF IsDict(result) /\ Has(result, "response")
    THEN GetD(result, "response", JStr(""))
  ELSE IF IsDict(result) /\ Has(result, "predictions")
          /\ Truthy(Get(result, "predictions"))
    THEN IF Item0Raises(Get(result, "predictions"))
           THEN Raised
           ELSE FromPrediction(Item0(Get(result, "predictions")))
  ELSE JStr(PyStr(result))

\* content after the try/except and the "ensure string" step
Normalize(result) ==
  LET content == ExtractContent(result)
  IN IF content.t = "raise" THEN PyStr(result) ELSE PyStr(content)

\* The backtick cannot be written in a string of this module: "~" stands
\* for it, so Fence is the source's three-backtick marker.
Tick == "~"
Fence == Tick \o Tick \o Tick
FenceSql == Fence \o "sql"

\* variant: the content is not trimmed again after the markers are removed
CleanupNoRetrim(content) ==
  LET c1 == {Strip(content)}
      c2 == {IF StartsWith(c, FenceSql) THEN SubSeq(c, 7, Len(c)) ELSE c : c \in c1}
      c3 == {IF StartsWith(c, Fence) THEN SubSeq(c, 4, Len(c)) ELSE c : c \in c2}
  IN The({IF EndsWith(c, Fence) THEN SubSeq(c, 1, Len(c) - 3) ELSE c : c \in c3})

\* removal of the code-fence markers: the five assignments to content
Cleanup(content) ==
  LET c1 == {Strip(content)}
      c2 == {IF StartsWith(c, FenceSql) THEN SubSeq(c, 7, Len(c)) ELSE c : c \in c1}
      c3 == {IF StartsWith(c, Fence) THEN SubSeq(c, 4, Len(c)) ELSE c : c \in c2}
      c4 == {IF EndsWith(c, Fence) THEN SubSeq(c, 1, Len(c) - 3) ELSE c : c \in c3}
  IN The({Strip(c) : c \in c4})

\* ------------------------------------------------------------------------
\* Response bodies the endpoint may send (the inputs of the normalization)
\* ------------------------------------------------------------------------
\* longest list of segments in a message content
MaxSegs == 2

\* zero or one item with key k and a value of vals
Opt(k, vals) == {<<>>} \cup {<< <<k, x>> >> : x \in vals}

Leaves == {JNull, JNum(5), JStr(""), JStr("S"), JStr("T")}

TextSeg(s) == JDict(<< <<"type", JStr("text")>>, <<"text", JStr(s)>> >>)

Segments ==
  {JStr("S"), JNum(5), TextSeg("S"), TextSeg("T"), TextSeg(""),
   JDict(<< <<"text", JStr("")>>, <<"content", JStr("T")>> >>),
   JDict(<< <<"text", JNum(5)>> >>)}

SegmentLists == UNION {[1..n -> Segments] : n \in 0..MaxSegs}

Messages ==
  {JStr("S"), JNull, JDict(<<>>)}
  \cup {JDict(<< <<"role", JStr("assistant")>>, <<"content", c>> >>) :
          c \in Leaves \cup {JList(l) : l \in SegmentLists}}

FirstChoices ==
  {JNum(5), JStr("S"), JNull, JDict(<<>>), JDict(<< <<"index", JNum(0)>> >>)}
  \cup {JDict(m \o x) : m \in Opt("message", Messages), x \in Opt("text", Leaves)}

ChoicesValues ==
  {JNull, JList(<<>>), JStr("S"), JNum(5), JDict(<< <<"k", JStr("S")>> >>)}
  \cup {JList(<<c>>) : c \in FirstChoices}
  \cup {JList(<<JDict(<< <<"text", JStr("S")>> >>), JDict(<< <<"text", JStr("T")>> >>)>>)}

Predictions ==
  {JStr(""), JStr("S"), JNum(5), JNull, JDict(<<>>),
   JDict(<< <<"text", JStr("S")>> >>), JDict(<< <<"text", JStr("")>> >>),
   JDict(<< <<"output", JStr("T")>> >>),
   JDict(<< <<"text", JStr("")>>, <<"output", JStr("T")>> >>),
   JDict(<< <<"text", JStr("S")>>, <<"output", JStr("T")>> >>)}

PredictionsValues ==
  {JNull, JList(<<>>), JNum(5), JDict(<< <<"k", JStr("S")>> >>)}
  \cup {JList(<<q>>) : q \in Predictions}
  \cup {JList(<<JStr("S"), JStr("T")>>)}

\* every body of the model: objects with any of the four known keys, and
\* bodies that are no object
AllBodies ==
  {JNull, JStr("S"), JNum(5), JList(<<>>), JList(<<JStr("S")>>),
   JDict(<< <<"error", JStr("S")>> >>)}
  \cup {JDict(c \o x \o r \o q) :
          c \in Opt("choices", ChoicesValues),
          x \in Opt("text", {JStr("T")}),
          r \in Opt("response", {JStr("T")}),
          q \in Opt("predictions", {JList(<<JStr("T")>>)})}
  \cup {JDict(c \o x \o r \o q) :
          c \in Opt("choices", {JNull, JList(<<>>)}),
          x \in Opt("text", Leaves),
          r \in Opt("response", Leaves),
          q \in Opt("predictions", PredictionsValues)}

\* ------------------------------------------------------------------------
\* analyze_conversion_changes (the arrow U+2192 is written "->")
\* ------------------------------------------------------------------------
\* variant: the items are joined by a comma, whatever the separator
JoinWithComma(items, sep) ==
  The({LET from[i \in 1..(Len(x) + 1)] ==
             IF i > Len(x) THEN ""
             ELSE x[i] \o (IF i < Len(x) THEN ", " ELSE "") \o from[i + 1]
       IN from[1]
       : x \in {items}})

\* sep.join(items)
JoinWith(items, sep) ==
  The({LET from[i \in 1..(Len(x) + 1)] ==
             IF i > Len(x) THEN ""
             ELSE x[i] \o (IF i < Len(x) THEN sep ELSE "") \o from[i + 1]
       IN from[1]
       : x \in {items}})

\* changes.append(phrase) under the condition cond
Rule(cond, phrase) == IF cond THEN <<phrase>> ELSE <<>>

\* the list changes before the fallback phrase is added, from
\* o = original_upper and c = converted_upper
ChangesUpper(o, c) ==
     (IF Contains(o, "VARCHAR") /\ Contains(c, "STRING")
        THEN <<"VARCHAR -> STRING">>
        ELSE Rule(Contains(o, "VARCHAR") /\ Contains(c, "VARCHAR"),
                  "Preserved VARCHAR types"))
     \o Rule(Contains(o, "CHAR(") /\ Contains(c, "VARCHAR"), "CHAR -> VARCHAR")
     \o Rule(Contains(o, "TEXT")
               /\ (Contains(c, "VARCHAR") \/ Contains(c, "STRING")),
             "TEXT -> VARCHAR/STRING")
     \o (IF Contains(o, "IDENTITY(") /\ Contains(c, "GENERATED ALWAYS AS IDENTITY")
           THEN <<"IDENTITY -> GENERATED ALWAYS AS IDENTITY">>
           ELSE Rule(Contains(o, "IDENTITY("), "Converted IDENTITY columns"))
     \o Rule(Contains(o, "DEFAULT") /\ Contains(c, "DEFAULT"),
             "Preserved DEFAULT values in CREATE TABLE")
     \o Rule(Contains(o, "GETDATE()") /\ Contains(c, "CURRENT_TIMESTAMP()"),
             "getdate() -> CURRENT_TIMESTAMP()")
     \o Rule(Contains(o, "GETUTCDATE()") /\ Contains(c, "CURRENT_TIMESTAMP()"),
             "getutcdate() -> CURRENT_TIMESTAMP()")
     \o Rule(Contains(o, "SYSDATE") /\ Contains(c, "CURRENT_TIMESTAMP()"),
             "SYSDATE -> CURRENT_TIMESTAMP()")
     \o Rule(Contains(o, "PRIMARY KEY") /\ Contains(c, "PRIMARY KEY"),
             "Preserved PRIMARY KEY")
     \o Rule(Contains(o, "FOREIGN KEY") /\ ~Contains(c, "FOREIGN KEY"),
             "Removed FOREIGN KEY (not supported)")
     \o Rule(Contains(o, "UNIQUE") /\ ~Contains(c, "UNIQUE"),
             "Removed UNIQUE constraints (not supported)")
     \o Rule(Contains(o, "CHECK(") /\ ~Contains(c, "CHECK("),
             "Removed CHECK constraints (not supported)")
     \o Rule(Contains(o, "DISTKEY"), "Removed DISTKEY (Redshift-specific)")
     \o Rule(Contains(o, "SORTKEY"), "Removed SORTKEY (Redshift-specific)")
     \o Rule(Contains(o, "DISTSTYLE"), "Removed DISTSTYLE (Redshift-specific)")
     \o Rule(Contains(o, "CLUSTERED") \/ Contains(o, "NONCLUSTERED"),
             "Removed CLUSTERED/NONCLUSTERED (SQL Server-specific)")
     \o Rule(Contains(c, "USING DELTA"), "Added USING DELTA")
     \o Rule(Contains(c, "TBLPROPERTIES")
               /\ Contains(RemoveSpaces(c), "IDENTITYCOLUMNS"),
             "Added IDENTITY columns support")
     \o Rule(Contains(c, "TBLPROPERTIES")
               /\ Contains(RemoveSpaces(c), "ALLOWCOLUMNDEFAULTS"),
             "Added column defaults support")

Changes(original_sql, converted_sql) ==
  The({ChangesUpper(o, c) : o \in {Upper(original_sql)},
                            c \in {Upper(converted_sql)}})

analyze_conversion_changes(original_sql, converted_sql) ==
  The({JoinWith(IF changes = <<>>
                  THEN <<"Converted to Databricks SQL format">>
                  ELSE changes,
                "; ")
       : changes \in {Changes(original_sql, converted_sql)}})

\* ------------------------------------------------------------------------
\* create_conversion_prompt: the f-string is the fixed text before the
\* DDL, the DDL, the fixed text after it (the rules and the worked example,
\* cut here to their first and last lines)
\* ------------------------------------------------------------------------
PromptHead ==
  "\nYou are an expert SQL developer specializing in converting SQL DDL statements to Databricks SQL format.\n\nOriginal SQL:\n"

PromptTail ==
  "\n\nIMPORTANT CONVERSION RULES:\n\nPlease convert the SQL and return ONLY the converted Databricks SQL code without any explanations.\n"

\* variant: the DDL is trimmed before it is put into the prompt
create_conversion_promptTrimmed(sql_content) ==
  PromptHead \o Strip(sql_content) \o PromptTail

create_conversion_prompt(sql_content) == PromptHead \o sql_content \o PromptTail

\* ------------------------------------------------------------------------
\* ai_query: credential check, status check, return value
\* ------------------------------------------------------------------------
\* variant: only an absent token counts as missing
TokenMissingOnlyNone(access_token) == access_token.t = "null"

\* "if not access_token": the session holds no token, or an empty one
TokenMissing(access_token) == ~Truthy(access_token)

\* "if response.status_code == 200"
StatusOk(status_code) == status_code = 200

\* a response body that is not JSON: response.json() raises
NotJson == [t |-> "notjson", v |-> 0]

NoResponse == [kind |-> "none", status |-> 0, isjson |-> FALSE, body |-> JNull]

\* requests.post raised (connection error, timeout after 60 s)
TransportFailure ==
  [kind |-> "exception", status |-> 0, isjson |-> FALSE, body |-> JNull]

HttpResponse(status, isjson, body) ==
  [kind |-> "http", status |-> status, isjson |-> isjson, body |-> body]

\* what ai_query returns once requests.post has ended with resp: None after
\* an exception (raised by post, or by response.json() on a body that is not
\* JSON) and after a status other than 200, else the cleaned content
AiQueryReturn(resp) ==
  IF resp.kind = "exception" THEN JNull
  ELSE IF StatusOk(resp.status)
    THEN IF resp.isjson THEN JStr(Cleanup(Normalize(resp.body))) ELSE JNull
    ELSE JNull

\* ------------------------------------------------------------------------
\* Records of the loaded table (st.session_state.file_data_df)
\* ------------------------------------------------------------------------
ReadErrorSentinel == "[X] Error reading file"
FailureSentinel == "[X] Conversion failed"
NoContentSentinel == "[X] No content to convert"

\* a row of the DataFrame; status is the branch of the batch loop that wrote
\* the row last (the message it reports), Pending for a row as loaded
Row(filename, content, converted, comments, status) ==
  [Filename |-> filename, Content |-> content, Converted |-> converted,
   Comments |-> comments, status |-> status]

\* variant: a loaded row is given a summary
LoadRowWithNote(file_name, content) ==
  IF content.t # "null"
    THEN Row(file_name, content.v, "", "Loaded", "Pending")
    ELSE Row(file_name, ReadErrorSentinel, "", "Loaded", "Pending")

\* the row appended for one listed file: content is what read_file_content
\* returned (None when the read failed)
LoadRow(file_name, content) ==
  IF content.t # "null"
    THEN Row(file_name, content.v, "", "", "Pending")
    ELSE Row(file_name, ReadErrorSentinel, "", "", "Pending")

\* variant: the test forgets the read-error sentinel
UsableNoSentinel(content) == content # ""

\* "if row['Content'] and row['Content'] != <read-error sentinel>"
Usable(content) == content # "" /\ content # ReadErrorSentinel

\* variant: any returned string counts as a conversion, the empty one too
IsSuccessAnyString(converted_code) == IsStr(converted_code)

\* "if converted_code and converted_code.strip()"
IsSuccess(converted_code) ==
  IF IsStr(converted_code)
    THEN converted_code.v # "" /\ Strip(converted_code.v) # ""
    ELSE FALSE

\* the three writes of the loop body into updated_df.loc[idx]
ConvertedRow(row, converted_code) ==
  [row EXCEPT !.Converted = converted_code.v,
              !.Comments = analyze_conversion_changes(row.Content, converted_code.v),
              !.status = "Converted"]

\* variant: the failure branch leaves the summary as it was
FailedRowKeepsSummary(row) ==
  [row EXCEPT !.Converted = FailureSentinel,
              !.status = "Failed"]

FailedRow(row) ==
  [row EXCEPT !.Converted = FailureSentinel,
              !.Comments = "AI conversion failed",
              !.status = "Failed"]

\* variant: a skipped row gets the failure sentinel
SkippedRowAsFailure(row) ==
  [row EXCEPT !.Converted = FailureSentinel,
              !.Comments = "No content available",
              !.status = "Skipped"]

SkippedRow(row) ==
  [row EXCEPT !.Converted = NoContentSentinel,
              !.Comments = "No content available",
              !.status = "Skipped"]

\* the row written once ai_query has returned converted_code
OutcomeRow(row, converted_code) ==
  IF IsSuccess(converted_code)
    THEN ConvertedRow(row, converted_code)
    ELSE FailedRow(row)

\* variant: every attempted row is counted
NewCountAttempts(count, converted_code) == count + 1

\* converted_count after the row for which ai_query returned converted_code
NewCount(count, converted_code) ==
  IF IsSuccess(converted_code) THEN count + 1 ELSE count

\* variant: the loop does not advance
NextIdxStuck(idx) == idx

\* the index the loop moves to after the row at idx
NextIdx(idx) == idx + 1

\* ------------------------------------------------------------------------
\* Bounds and input sets
\* ------------------------------------------------------------------------
\* most files a listing of the volume holds
MaxFiles == 2

FileNames == <<"a.sql", "b.v2.sql", "c.SQL", "d.sql", "e.sql">>

Ddl == "CREATE TABLE t (id BIGINT IDENTITY(1,1), n VARCHAR(9))"
DeltaDdl == "CREATE TABLE t (id BIGINT GENERATED ALWAYS AS IDENTITY, n VARCHAR(9)) USING DELTA"

\* what read_file_content may return for a file: its text, or None
FileContents == {JNull, JStr(""), JStr(Ddl)}

\* what the user may type into the token field
TokenInputs == {"", "  ", "dapi1", " dapi1 "}

ChatBody(content) ==
  JDict(<< <<"choices",
             JList(<<JDict(<< <<"message",
                                JDict(<< <<"role", JStr("assistant")>>,
                                         <<"content", content>> >>)>> >>)>>)>> >>)

\* bodies the endpoint sends during a batch run
BatchBodies ==
  {ChatBody(JStr(Fence \o "sql\n" \o DeltaDdl \o "\n" \o Fence)),
   ChatBody(JStr(" \n")),
   JDict(<< <<"text", JStr(FailureSentinel)>> >>)}

Statuses == {200, 201, 204, 404, 500}
BatchStatuses == {200, 500}

\* the prompt of test_ai_connection
TestPrompt ==
  "Convert this SQL to Databricks format: CREATE TABLE test (id INT, name VARCHAR(50));"

\* ------------------------------------------------------------------------
\* State
\* ------------------------------------------------------------------------
VARIABLES
  pc,               \* "idle": the script waits for a click; "loop": the batch
                    \* loop is at the top of an iteration; "wait": it waits for
                    \* ai_query; "done": the loop has ended and the result is
                    \* stored; "client": ai_query is exercised on its own
  databricks_token, \* st.session_state.databricks_token, JNull when absent
  file_data_df,     \* st.session_state.file_data_df, <<>> when absent
  updated_df,       \* the loop's working copy
  idx,              \* the loop's position (0-based, as in the source)
  converted_count,
  report,           \* <<converted_count, total_rows>> of the final message
  aq,               \* the running ai_query call: its stage, prompt, the
                    \* response of the POST, the value returned
  posts,            \* requests.post calls made by the current ai_query call
  inflight,         \* requests sent and not yet answered
  calls,            \* per row: ai_query calls made for it in this run
  results,          \* per row: what ai_query returned for it in this run
  visited,          \* the indices the loop has visited in this run, in order
  before,           \* the stored table as it was when this run started
  progress,         \* the <<done, total>> pairs shown by the progress bar in
                    \* this run, in order
  fn,               \* a function exercised on its own: which one was called
                    \* last ("none" before the first call),
  arg,              \* with which argument,
  out               \* and what it returned

vars == <<pc, databricks_token, file_data_df, updated_df, idx, converted_count,
          report, aq, posts, inflight, calls, results, visited, before, progress, fn, arg, out>>

NoCall == [stage |-> "none", prompt |-> "", resp |-> NoResponse, ret |-> JNull]

\* markers in results: the row has not been reached; it was skipped
NotYet == [t |-> "notyet", v |-> 0]
Skipped == [t |-> "skipped", v |-> 0]

total_rows == Len(updated_df)

ResponseBodies == IF pc = "client" THEN AllBodies ELSE BatchBodies
ResponseStatuses == IF pc = "client" THEN Statuses ELSE BatchStatuses

Init ==
  /\ pc = "idle"
  /\ databricks_token = JNull
  /\ file_data_df = <<>>
  /\ updated_df = <<>>
  /\ idx = 0
  /\ converted_count = 0
  /\ report = <<>>
  /\ aq = NoCall
  /\ posts = 0
  /\ inflight = 0
  /\ calls = <<>>
  /\ results = <<>>
  /\ visited = <<>>
  /\ before = <<>>
  /\ progress = <<>>
  /\ fn = "none"
  /\ arg = <<>>
  /\ out = <<>>

\* ------------------------------------------------------------------------
\* ai_query
\* ------------------------------------------------------------------------
\* entry of ai_query(prompt) up to the POST: without a token it returns None
\* at once, else it sends the request and blocks
AiQueryEnter(prompt) ==
  IF TokenMissing(databricks_token)
    THEN /\ aq' = [stage |-> "returned", prompt |-> prompt,
                   resp |-> NoResponse, ret |-> JNull]
         /\ posts' = 0
         /\ inflight' = inflight
    ELSE /\ aq' = [stage |-> "posted", prompt |-> prompt,
                   resp |-> NoResponse, ret |-> JNull]
         /\ posts' = 1
         /\ inflight' = inflight + 1

\* the POST ends with resp; ai_query runs to its return statement
AiQueryFinish(resp) ==
  /\ aq.stage = "posted"
  /\ aq' = [aq EXCEPT !.stage = "returned", !.resp = resp,
                      !.ret = AiQueryReturn(resp)]
  /\ inflight' = inflight - 1
  /\ UNCHANGED <<pc, databricks_token, file_data_df, updated_df, idx,
                 converted_count, report, posts, calls, results, visited, before, progress, fn, arg, out>>

AiTransportError == AiQueryFinish(TransportFailure)

AiHttpResponse ==
  /\ aq.stage = "posted"
  /\ \E status \in ResponseStatuses :
       \E json \in ResponseBodies \cup {NotJson} :
         AiQueryFinish(HttpResponse(status, json # NotJson, json))

\* ------------------------------------------------------------------------
\* file_reader_tab and main: the token
\* ------------------------------------------------------------------------
\* variant: the token is stored as typed
SaveTokenUntrimmed ==
  /\ pc = "idle"
  /\ \E token_input \in TokenInputs :
       databricks_token' = IF Strip(token_input) # ""
                             THEN JStr(token_input)
                             ELSE databricks_token
  /\ UNCHANGED <<pc, file_data_df, updated_df, idx, converted_count, report,
                 aq, posts, inflight, calls, results, visited, before, progress, fn, arg, out>>

SaveToken ==
  /\ pc = "idle"
  /\ \E token_input \in TokenInputs :
       databricks_token' = IF Strip(token_input) # ""
                             THEN JStr(Strip(token_input))
                             ELSE databricks_token
  /\ UNCHANGED <<pc, file_data_df, updated_df, idx, converted_count, report,
                 aq, posts, inflight, calls, results, visited, before, progress, fn, arg, out>>

ClearToken ==
  /\ pc = "idle"
  /\ Truthy(databricks_token)
  /\ databricks_token' = JNull
  /\ UNCHANGED <<pc, file_data_df, updated_df, idx, converted_count, report,
                 aq, posts, inflight, calls, results, visited, before, progress, fn, arg, out>>

\* ------------------------------------------------------------------------
\* file_reader_tab: Load All SQL Files
\* ------------------------------------------------------------------------
LoadAll ==
  /\ pc = "idle"
  /\ \E n \in 1..MaxFiles :
       \E contents \in [1..n -> FileContents] :
         file_data_df' = [i \in 1..n |-> LoadRow(FileNames[i], contents[i])]
  /\ UNCHANGED <<pc, databricks_token, updated_df, idx, converted_count,
                 report, aq, posts, inflight, calls, results, visited, before, progress, fn, arg, out>>

\* ------------------------------------------------------------------------
\* file_reader_tab: Convert to DBSQL (the batch loop)
\* ------------------------------------------------------------------------
StartBatch ==
  /\ pc = "idle"
  /\ file_data_df # <<>>
  /\ Truthy(databricks_token)
  /\ pc' = "loop"
  /\ updated_df' = file_data_df
  /\ idx' = 0
  /\ converted_count' = 0
  /\ calls' = [i \in 1..Len(file_data_df) |-> 0]
  /\ results' = [i \in 1..Len(file_data_df) |-> NotYet]
  /\ visited' = <<>>
  /\ before' = file_data_df
  /\ progress' = <<>>
  /\ UNCHANGED <<databricks_token, file_data_df, report, aq, posts, inflight,
                 fn, arg, out>>

\* an iteration for a row without usable content
LoopSkip ==
  /\ pc = "loop"
  /\ idx < total_rows
  /\ ~Usable(file_data_df[idx + 1].Content)
  /\ updated_df' = [updated_df EXCEPT ![idx + 1] = SkippedRow(@)]
  /\ results' = [results EXCEPT ![idx + 1] = Skipped]
  /\ visited' = Append(visited, idx)
  /\ idx' = NextIdx(idx)
  /\ UNCHANGED <<pc, databricks_token, file_data_df, converted_count, report,
                 aq, posts, inflight, calls, before, progress, fn, arg, out>>

\* an iteration for a row with usable content, up to the call of ai_query
LoopCall ==
  /\ pc = "loop"
  /\ idx < total_rows
  /\ Usable(file_data_df[idx + 1].Content)
  /\ AiQueryEnter(create_conversion_prompt(file_data_df[idx + 1].Content))
  /\ calls' = [calls EXCEPT ![idx + 1] = @ + 1]
  /\ visited' = Append(visited, idx)
  /\ progress' = Append(progress, <<idx + 1, total_rows>>)
  /\ pc' = "wait"
  /\ UNCHANGED <<databricks_token, file_data_df, updated_df, idx,
                 converted_count, report, results, before, fn, arg, out>>

\* the rest of the iteration, once ai_query has returned
LoopRecord ==
  /\ pc = "wait"
  /\ aq.stage = "returned"
  /\ updated_df' = [updated_df EXCEPT ![idx + 1] = OutcomeRow(@, aq.ret)]
  /\ converted_count' = NewCount(converted_count, aq.ret)
  /\ results' = [results EXCEPT ![idx + 1] = aq.ret]
  /\ idx' = NextIdx(idx)
  /\ aq' = NoCall
  /\ pc' = "loop"
  /\ UNCHANGED <<databricks_token, file_data_df, report, posts, inflight,
                 calls, visited, before, progress, fn, arg, out>>

\* after the loop: the copy is stored and the final message is shown
FinishBatch ==
  /\ pc = "loop"
  /\ idx >= total_rows
  /\ file_data_df' = updated_df
  /\ report' = <<converted_count, total_rows>>
  /\ pc' = "done"
  /\ UNCHANGED <<databricks_token, updated_df, idx, converted_count, aq,
                 posts, inflight, calls, results, visited, before, progress, fn, arg, out>>

\* st.rerun(): the script starts over, the locals of the run are gone
Rerun ==
  /\ pc = "done"
  /\ pc' = "idle"
  /\ updated_df' = <<>>
  /\ idx' = 0
  /\ converted_count' = 0
  /\ report' = <<>>
  /\ posts' = 0
  /\ calls' = <<>>
  /\ results' = <<>>
  /\ visited' = <<>>
  /\ before' = <<>>
  /\ progress' = <<>>
  /\ UNCHANGED <<databricks_token, file_data_df, aq, inflight, fn, arg, out>>

Next ==
  \/ SaveToken
  \/ ClearToken
  \/ LoadAll
  \/ StartBatch
  \/ LoopSkip
  \/ LoopCall
  \/ AiTransportError
  \/ AiHttpResponse
  \/ LoopRecord
  \/ FinishBatch
  \/ Rerun

Spec == Init /\ [][Next]_vars

\* The script is synchronous: once the batch has started the loop runs on,
\* and every POST ends (with a response, or with the timeout's exception).
BatchStep ==
  \/ LoopSkip
  \/ LoopCall
  \/ AiTransportError
  \/ AiHttpResponse
  \/ LoopRecord
  \/ FinishBatch

FairSpec == Spec /\ WF_vars(BatchStep)

\* ------------------------------------------------------------------------
\* file_reader_tab: what is shown for the stored table
\* ------------------------------------------------------------------------
\* variant: only the rows the batch loop converted are counted
converted_filesByStatus(df) ==
  Cardinality({i \in 1..Len(df) : df[i].status = "Converted"})

\* df[df['Converted DBSQL Code'].str.strip() != ""].shape[0]
converted_files(df) ==
  Cardinality({i \in 1..Len(df) : Strip(df[i].Converted) # ""})

\* len(df)
total_files(df) == Len(df)

\* any(df['Converted DBSQL Code'].str.strip() != ""): the download button
\* is enabled
has_conversions(df) == \E i \in 1..Len(df) : Strip(df[i].Converted) # ""

\* ------------------------------------------------------------------------
\* The session with the Test AI Connection button
\* ------------------------------------------------------------------------
\* test_ai_connection up to the POST of its ai_query call: without a token
\* it reports the failure at once and calls nothing
TestConnection ==
  /\ pc = "idle"
  /\ aq.stage = "none"
  /\ pc' = "test"
  /\ IF TokenMissing(databricks_token)
       THEN /\ aq' = [stage |-> "returned", prompt |-> "", resp |-> NoResponse,
                      ret |-> JNull]
            /\ posts' = 0
            /\ inflight' = inflight
       ELSE AiQueryEnter(TestPrompt)
  /\ UNCHANGED <<databricks_token, file_data_df, updated_df, idx,
                 converted_count, report, calls, results, visited, before,
                 progress, fn, arg, out>>

\* test_ai_connection returns: the outcome is shown, the script waits again
TestDone ==
  /\ pc = "test"
  /\ aq.stage = "returned"
  /\ pc' = "idle"
  /\ aq' = NoCall
  /\ posts' = 0
  /\ UNCHANGED <<databricks_token, file_data_df, updated_df, idx,
                 converted_count, report, inflight, calls, results, visited,
                 before, progress, fn, arg, out>>

NextSession ==
  \/ Next
  \/ TestConnection
  \/ TestDone

SpecSession == Init /\ [][NextSession]_vars

\* ------------------------------------------------------------------------
\* ai_query on its own: any token state, any response
\* ------------------------------------------------------------------------
TokenStates == {JNull, JStr(""), JStr("dapi1")}

InitClient ==
  /\ pc = "client"
  /\ databricks_token \in TokenStates
  /\ file_data_df = <<>>
  /\ updated_df = <<>>
  /\ idx = 0
  /\ converted_count = 0
  /\ report = <<>>
  /\ aq = NoCall
  /\ posts = 0
  /\ inflight = 0
  /\ calls = <<>>
  /\ results = <<>>
  /\ visited = <<>>
  /\ before = <<>>
  /\ progress = <<>>
  /\ fn = "none"
  /\ arg = <<>>
  /\ out = <<>>

\* a caller invokes ai_query(prompt)
CallAiQuery ==
  /\ pc = "client"
  /\ aq.stage = "none"
  /\ AiQueryEnter(TestPrompt)
  /\ UNCHANGED <<pc, databricks_token, file_data_df, updated_df, idx,
                 converted_count, report, calls, results, visited, before, progress, fn, arg, out>>

\* the caller takes the returned value
TakeResult ==
  /\ pc = "client"
  /\ aq.stage = "returned"
  /\ aq' = NoCall
  /\ posts' = 0
  /\ UNCHANGED <<pc, databricks_token, file_data_df, updated_df, idx,
                 converted_count, report, inflight, calls, results, visited, before, progress, fn, arg, out>>

NextClient ==
  \/ CallAiQuery
  \/ AiTransportError
  \/ AiHttpResponse
  \/ TakeResult

SpecClient == InitClient /\ [][NextClient]_vars

\* ------------------------------------------------------------------------
\* The pure functions on their own: each action is one call
\* ------------------------------------------------------------------------
InitFn ==
  /\ pc = "fn"
  /\ databricks_token \in {JNull, JStr("dapi1")}
  /\ file_data_df = <<>>
  /\ updated_df = <<>>
  /\ idx = 0
  /\ converted_count = 0
  /\ report = <<>>
  /\ aq = NoCall
  /\ posts = 0
  /\ inflight = 0
  /\ calls = <<>>
  /\ results = <<>>
  /\ visited = <<>>
  /\ before = <<>>
  /\ progress = <<>>
  /\ fn = "none"
  /\ arg = <<>>
  /\ out = <<>>

\* a call fn(x) that returned y; the actions below make one call, the first
\* of the behaviour
Called(f, x, y) ==
  /\ pc = "fn"
  /\ fn' = f
  /\ arg' = x
  /\ out' = y
  /\ UNCHANGED <<pc, databricks_token, file_data_df, updated_df, idx,
                 converted_count, report, aq, posts, inflight, calls, results,
                 visited, before, progress>>

\* texts the normalization may hand to the clean-up: white space, an opening
\* fence, an inner text, a closing fence, white space
Pads == {"", " ", "\n "}
Openers == {"", Fence, FenceSql}
Closers == {"", Fence}
InnerTexts == {"", "X", " a b ", "\nSELECT 1\n", "sqlite", "a" \o Tick \o "b", "  "}

CleanupInputs ==
  {p \o o \o x \o c \o q :
     p \in Pads, o \in Openers, x \in InnerTexts, c \in Closers, q \in Pads}

\* the clean-up of ai_query applied to the content the normalization found
ApplyCleanup ==
  /\ fn = "none"
  /\ \E content \in CleanupInputs : Called("cleanup", content, Cleanup(content))

\* DDL texts handed to the prompt builder
PromptInputs ==
  {"", " ", Ddl, " " \o Ddl \o "\n", "Original SQL:", "a\nb", "{sql_content}"}

BuildPrompt ==
  /\ fn = "none"
  /\ \E sql_content \in PromptInputs :
       Called("prompt", sql_content, create_conversion_prompt(sql_content))

\* DDL texts as stored, and as the endpoint answers them
Originals ==
  {"", "select 1", Ddl,
   "create table t (a char(3), b text, c int default 0, d date default getdate())",
   "CREATE TABLE t (i INT PRIMARY KEY, u INT UNIQUE, FOREIGN KEY (u) REFERENCES p, CHECK(u>0))",
   "CREATE TABLE t (a INT CHECK (a > 0)) DISTSTYLE KEY DISTKEY(a) SORTKEY(a)",
   "CREATE CLUSTERED INDEX i ON t(a); SELECT GETUTCDATE(), SYSDATE",
   "create nonclustered index i on t(a); create table t (a int) distkey(a)"}

Converteds ==
  {"", "select 1", DeltaDdl,
   "create table t (a string, d date default current_timestamp()) using delta",
   "CREATE TABLE t (a STRING) TBLPROPERTIES ('allowColumnDefaults' = 'supported')",
   "CREATE TABLE t (i INT PRIMARY KEY, u INT UNIQUE, FOREIGN KEY (u) REFERENCES p, CHECK (u>0))",
   "CREATE TABLE t (id INT, u INT, f INT)",
   "CREATE TABLE t (a INT) DISTSTYLE KEY DISTKEY(a) SORTKEY(a) CLUSTERED BY (a)",
   "CREATE TABLE t (a INT) TBLPROPERTIES ('delta.feature.identityColumns' = 'supported')"}

Summarize ==
  /\ fn = "none"
  /\ \E original_sql \in Originals : \E converted_sql \in Converteds :
       Called("summary", <<original_sql, converted_sql>>,
              analyze_conversion_changes(original_sql, converted_sql))

\* ------------------------------------------------------------------------
\* create_download_zip: the archive is the sequence of its entries, each a
\* <<name, content>> pair, in the order of the writestr calls
\* ------------------------------------------------------------------------
\* variant: the name is cut at its first dot
SplitDot0(s) ==
  LET dots == {i \in 1..Len(s) : SubSeq(s, i, i) = "."}
  IN IF dots = {} THEN s
     ELSE SubSeq(s, 1, (CHOOSE i \in dots : \A j \in dots : i <= j) - 1)

\* s.rsplit('.', 1)[0]: s up to its last dot, all of s when it has none
RsplitDot0(s) ==
  LET dots == {i \in 1..Len(s) : SubSeq(s, i, i) = "."}
  IN IF dots = {} THEN s
     ELSE SubSeq(s, 1, (CHOOSE i \in dots : \A j \in dots : i >= j) - 1)

\* pd.notna(x) for a cell that holds a str or is missing (None, NaN)
NotNa(x) == x.t # "null"

\* the entry written for one row
ZipEntry(row) ==
  <<RsplitDot0(row.Filename) \o "_converteddbsqlcode.sql", row.Converted.v>>

\* the entries written for the rows of df from the i-th on
RECURSIVE ZipFrom(_, _)
ZipFrom(df, i) ==
  IF i > Len(df) THEN <<>>
  ELSE (IF NotNa(df[i].Converted) THEN <<ZipEntry(df[i])>> ELSE <<>>)
       \o ZipFrom(df, i + 1)

create_download_zip(df) == ZipFrom(df, 1)

\* tables handed to the packager: the columns it reads, the converted code
\* being a str or missing
ZipNames == {"a.sql", "b.v2.sql", "noext", ".sql"}
ZipCells == {JNull, JStr(""), JStr("S"), JStr(FailureSentinel)}
ZipRows == {[Filename |-> f, Converted |-> c] : f \in ZipNames, c \in ZipCells}
\* most rows of a table handed to the packager
MaxRows == 3
ZipFrames == UNION {[1..n -> ZipRows] : n \in 0..MaxRows}

Download ==
  /\ fn = "none"
  /\ \E df \in ZipFrames : Called("zip", df, create_download_zip(df))

NextFn ==
  \/ ApplyCleanup
  \/ BuildPrompt
  \/ Summarize
  \/ Download

SpecFn == InitFn /\ [][NextFn]_vars

\* ========================================================================
\* Properties
\* ========================================================================
InRun == pc \in {"loop", "wait", "done"}

Rows == 1..Len(updated_df)

\* the stored content of row i is empty or the read-error sentinel
Unusable(i) ==
  before[i].Content = "" \/ before[i].Content = ReadErrorSentinel

\* C1: in a batch run every record whose stored content is empty or equals
\* the read-error sentinel ends Skipped, with the "no content" sentinel as
\* converted content and "No content available" as summary, and no
\* inference call is ever made for it, whatever the other records hold.
C1_UnusableSkipped ==
  InRun =>
    \A i \in Rows :
      Unusable(i) =>
        /\ calls[i] = 0
        /\ results[i].t \in {"notyet", "skipped"}
        /\ results[i].t = "skipped" =>
             /\ updated_df[i].status = "Skipped"
             /\ updated_df[i].Converted = NoContentSentinel
             /\ updated_df[i].Comments = "No content available"
        /\ pc = "done" =>
             /\ results[i].t = "skipped"
             /\ file_data_df[i] = updated_df[i]

\* a finished run over a read-error record and a converted record
C1_Witness ==
  /\ pc = "done"
  /\ \E i, j \in Rows :
       /\ file_data_df[i].Content = ReadErrorSentinel
       /\ file_data_df[i].status = "Skipped"
       /\ calls[i] = 0
       /\ file_data_df[j].status = "Converted"

\* C2: for a record with usable content the outcome follows from the value
\* ai_query returned for it alone: a string that is non-empty after trimming
\* makes it Converted, storing that string and the summary of (original,
\* converted); None or an empty string makes it Failed, with the failure
\* sentinel and the summary "AI conversion failed".
C2_OutcomeFromInference ==
  InRun =>
    \A i \in Rows :
      ~Unusable(i) =>
        /\ results[i].t # "notyet" =>
             IF results[i].t = "str" /\ Strip(results[i].v) # ""
               THEN /\ updated_df[i].status = "Converted"
                    /\ updated_df[i].Converted = results[i].v
                    /\ updated_df[i].Comments =
                         analyze_conversion_changes(before[i].Content, results[i].v)
               ELSE /\ results[i].t \in {"null", "str"}
                    /\ updated_df[i].status = "Failed"
                    /\ updated_df[i].Converted = FailureSentinel
                    /\ updated_df[i].Comments = "AI conversion failed"
        /\ pc = "done" =>
             /\ results[i].t # "notyet"
             /\ file_data_df[i] = updated_df[i]

\* a finished run with a converted record and a record failed on an empty answer
C2_Witness ==
  /\ pc = "done"
  /\ \E i, j \in Rows :
       /\ file_data_df[i].status = "Converted"
       /\ file_data_df[i].Converted = DeltaDdl
       /\ file_data_df[j].status = "Failed"
       /\ results[j] = JStr("")

ConvertedRows == {i \in 1..Len(file_data_df) : file_data_df[i].status = "Converted"}

C3_Done ==
  pc = "done" =>
    /\ \A i \in Rows : results[i].t # "notyet" /\ file_data_df[i].status # "Pending"
    /\ report = <<Cardinality(ConvertedRows), Len(file_data_df)>>

C3_Isolated ==
  pc \in {"loop", "wait"} =>
    \A j \in Rows : j # idx + 1 => updated_df'[j] = updated_df[j]

\* C3: a batch run always completes, whatever inference calls fail: every
\* record is processed, a step for one record changes no other record, and
\* the reported success count is the number of records that ended Converted.
C3_BatchCompletes ==
  /\ []C3_Done
  /\ [][C3_Isolated]_vars
  /\ (pc \in {"loop", "wait"}) ~> (pc = "done")

\* a finished run in which every record failed: 0 of 2 is reported
C3_Witness ==
  /\ pc = "done"
  /\ report = <<0, 2>>
  /\ results = <<JNull, JStr("")>>
  /\ \A i \in Rows : file_data_df[i].status = "Failed"

C4_Sequential ==
  /\ inflight <= 1
  /\ pc # "wait" => inflight = 0
  /\ InRun =>
       /\ visited = [k \in 1..Len(visited) |-> k - 1]
       /\ Len(visited) = idx + (IF pc = "wait" THEN 1 ELSE 0)
       /\ idx <= Len(updated_df)
       /\ \A i \in Rows :
            /\ calls[i] <= 1
            /\ i <= idx <=> results[i].t # "notyet"
       /\ pc = "done" => Len(visited) = Len(updated_df)

C4_OutcomeKept ==
  \A j \in 1..Len(results) :
    (results[j].t # "notyet" /\ pc' # "idle") =>
      updated_df'[j] = updated_df[j] /\ results'[j] = results[j]

\* C4: in one batch run the records are visited once each, in input order;
\* at most one inference call is in flight, the call for a record starts only
\* when the outcomes of all earlier records are recorded, at most one call is
\* made per record, and an outcome once set is not changed again in the run.
C4_OneAtATime == []C4_Sequential /\ [][C4_OutcomeKept]_vars

\* the call for the second record is in flight, the first outcome recorded
C4_Witness ==
  /\ pc = "wait"
  /\ idx = 1
  /\ inflight = 1
  /\ results[1].t # "notyet"
  /\ calls = <<1, 1>>

\* every row of the stored table and of the loop's working copy
AllRows ==
  {file_data_df[i] : i \in 1..Len(file_data_df)}
  \cup {updated_df[i] : i \in 1..Len(updated_df)}

\* C5 as stated: a record is Converted if and only if its converted content
\* is non-empty and is not the failure sentinel, a Skipped record included.
C5_Original ==
  \A r \in AllRows :
    r.status = "Converted" <=> (r.Converted # "" /\ r.Converted # FailureSentinel)

\* C5 (amended): a record is Pending exactly while its converted content is
\* empty; a Converted record holds non-blank content, a Failed record the
\* failure sentinel, a Skipped record the "no content" sentinel; so content
\* that is non-empty and neither sentinel belongs to a Converted record.
C5_StatusAndContent ==
  \A r \in AllRows :
    /\ r.status \in {"Pending", "Converted", "Failed", "Skipped"}
    /\ r.status = "Pending" <=> r.Converted = ""
    /\ r.status = "Converted" => Strip(r.Converted) # ""
    /\ r.status = "Failed" => r.Converted = FailureSentinel
    /\ r.status = "Skipped" => r.Converted = NoContentSentinel
    /\ r.Converted \notin {"", FailureSentinel, NoContentSentinel} =>
         r.status = "Converted"

\* a stored table with a Skipped record, whose content is the "no content"
\* sentinel, next to a Converted record
C5_Witness ==
  /\ pc = "done"
  /\ \E i, j \in 1..Len(file_data_df) :
       /\ file_data_df[i].status = "Skipped"
       /\ file_data_df[i].Converted = NoContentSentinel
       /\ file_data_df[j].status = "Converted"

\* the row that follows from a file name, its content and the value result
\* recorded for it in the run
Derived(filename, content, result) ==
  IF result.t = "skipped"
    THEN Row(filename, content, NoContentSentinel, "No content available", "Skipped")
  ELSE IF result.t = "str" /\ Strip(result.v) # ""
    THEN Row(filename, content, result.v,
             analyze_conversion_changes(content, result.v), "Converted")
    ELSE Row(filename, content, FailureSentinel, "AI conversion failed", "Failed")

\* rows the run has reached are re-derived, and a finished run has reached all
C6_Rederived ==
  InRun =>
    \A i \in Rows :
      /\ results[i].t # "notyet" =>
           updated_df[i] = Derived(before[i].Filename, before[i].Content, results[i])
      /\ pc = "done" =>
           /\ results[i].t # "notyet"
           /\ file_data_df[i] = updated_df[i]

\* rows the run has not reached yet are Pending, with nothing of an earlier run
C6_ResetToPending ==
  InRun =>
    \A i \in Rows :
      results[i].t = "notyet" =>
        /\ updated_df[i].status = "Pending"
        /\ updated_df[i].Converted = ""
        /\ updated_df[i].Comments = ""

\* C6 as stated: a re-run resets all records to Pending before reprocessing,
\* and after it every record is derived from its original content and the new
\* run's inference results alone.
C6_Original == C6_ResetToPending /\ C6_Rederived

\* rows the run has not reached yet are as the run found them
C6_KeptUntilReached ==
  InRun =>
    \A i \in Rows :
      /\ updated_df[i].Filename = before[i].Filename
      /\ updated_df[i].Content = before[i].Content
      /\ results[i].t = "notyet" => updated_df[i] = before[i]

\* C6 (amended): a re-run resets nothing: a record keeps the converted
\* content, summary and status of the previous run until the loop reaches it;
\* once reached it is derived from its original content and the new run's
\* inference result alone, so after the re-run nothing of the previous run
\* survives in any record.
C6_FullRederivation == C6_KeptUntilReached /\ C6_Rederived

\* a finished re-run of a table whose records were all processed before: a
\* record that was Converted is now Failed
C6_Witness ==
  /\ pc = "done"
  /\ \A i \in Rows : before[i].status # "Pending"
  /\ \E i \in Rows :
       /\ before[i].status = "Converted"
       /\ file_data_df[i].status = "Failed"
       /\ file_data_df[i].Comments = "AI conversion failed"

\* no token is stored, or an empty one
NoCredential == databricks_token.t = "null" \/ databricks_token.v = ""

\* C7: one call of ai_query sends no request and returns None when no token
\* is stored (absent or empty), and sends exactly one POST otherwise; whatever
\* the outcome of that POST, no second request is sent.
C7_SingleAttempt ==
  /\ posts <= 1
  /\ inflight <= 1
  /\ aq.stage = "posted" => (~NoCredential /\ posts = 1 /\ inflight = 1)
  /\ aq.stage = "returned" =>
       /\ inflight = 0
       /\ IF NoCredential
            THEN posts = 0 /\ aq.ret.t = "null" /\ aq.resp.kind = "none"
            ELSE posts = 1 /\ aq.resp.kind \in {"exception", "http"}

\* a call that returned None after one POST answered with status 500
C7_Witness ==
  /\ pc = "client"
  /\ aq.stage = "returned"
  /\ aq.resp.kind = "http"
  /\ aq.resp.status = 500
  /\ aq.ret.t = "null"
  /\ posts = 1

\* C8 as stated: ai_query returns None exactly when the token is missing, the
\* transport fails or the status is not 2xx; for every 2xx status with a JSON
\* body it returns the normalized string.
C8_Original ==
  (pc = "client" /\ aq.stage = "returned") =>
    IF \/ NoCredential
       \/ aq.resp.kind = "exception"
       \/ aq.resp.status \notin 200..299
      THEN aq.ret.t = "null"
      ELSE aq.resp.isjson =>
             /\ aq.ret.t = "str"
             /\ aq.ret.v = Cleanup(Normalize(aq.resp.body))

\* ai_query has returned for a POST answered with status 200 and a JSON body
Answered ==
  /\ pc = "client"
  /\ aq.stage = "returned"
  /\ aq.resp.kind = "http"
  /\ aq.resp.status = 200
  /\ aq.resp.isjson

\* a segment of the documented form {"type": ..., "text": <string>}
PlainSegment(seg) ==
  /\ IsDict(seg)
  /\ Len(seg.v) = 2
  /\ Has(seg, "type")
  /\ Has(seg, "text")
  /\ IsStr(Get(seg, "text"))

\* a first choice of a documented form: a message whose content is a string
\* or a list of segments, or (without message) a text string
DocumentedChoice(c) ==
  /\ IsDict(c)
  /\ IF Has(c, "message")
       THEN /\ IsDict(Get(c, "message"))
            /\ Has(Get(c, "message"), "content")
            /\ LET content == Get(Get(c, "message"), "content")
               IN \/ IsStr(content)
                  \/ /\ IsList(content)
                     /\ \A i \in 1..Len(content.v) : PlainSegment(content.v[i])
       ELSE Has(c, "text") /\ IsStr(Get(c, "text"))

\* predictions[0] of a documented form: a string, or an object with a text
DocumentedPrediction(q) ==
  \/ IsStr(q)
  \/ /\ IsDict(q)
     /\ Len(q.v) = 1
     /\ Has(q, "text")
     /\ IsStr(Get(q, "text"))

NonEmptyList(x) == IsList(x) /\ Len(x.v) > 0

\* the body is an object and the first known key it holds, in the order
\* choices, text, response, predictions, has a documented form
Documented(body) ==
  /\ IsDict(body)
  /\ IF Has(body, "choices")
       THEN /\ NonEmptyList(Get(body, "choices"))
            /\ DocumentedChoice(Get(body, "choices").v[1])
     ELSE IF Has(body, "text") THEN IsStr(Get(body, "text"))
     ELSE IF Has(body, "response") THEN IsStr(Get(body, "response"))
     ELSE /\ Has(body, "predictions")
          /\ NonEmptyList(Get(body, "predictions"))
          /\ DocumentedPrediction(Get(body, "predictions").v[1])

RECURSIVE ConcatText(_)
\* the texts of the segments, in order
ConcatText(segs) ==
  IF segs = <<>> THEN ""
  ELSE Get(Head(segs), "text").v \o ConcatText(Tail(segs))

\* the string the documented shape of the body carries
Oracle(body) ==
  IF Has(body, "choices")
    THEN LET c == Get(body, "choices").v[1]
         IN IF Has(c, "message")
              THEN LET content == Get(Get(c, "message"), "content")
                   IN IF IsStr(content) THEN content.v ELSE ConcatText(content.v)
              ELSE Get(c, "text").v
  ELSE IF Has(body, "text") THEN Get(body, "text").v
  ELSE IF Has(body, "response") THEN Get(body, "response").v
  ELSE LET q == Get(body, "predictions").v[1]
       IN IF IsStr(q) THEN q.v ELSE Get(q, "text").v

\* C9 as stated: for a successful response in a documented shape the
\* normalization yields that shape's string: the message content, the
\* concatenated segment texts, the first choice's text, the top-level text,
\* the top-level response, or predictions[0] (the string, or the object's
\* text), the first shape in this order winning.
C9_Original ==
  (Answered /\ Documented(aq.resp.body)) =>
    Normalize(aq.resp.body) = Oracle(aq.resp.body)

KnownKeys == {"choices", "text", "response", "predictions"}

\* the body matches none of the documented shapes: it is no object, or holds
\* no known key, or holds only choices, a list whose first element is no
\* object or an object with neither message nor text
NoShape(body) ==
  \/ ~IsDict(body)
  \/ /\ IsDict(body)
     /\ \A k \in KnownKeys : ~Has(body, k)
  \/ /\ IsDict(body)
     /\ \A k \in KnownKeys \ {"choices"} : ~Has(body, k)
     /\ Has(body, "choices")
     /\ NonEmptyList(Get(body, "choices"))
     /\ LET c == Get(body, "choices").v[1]
        IN \/ ~IsDict(c)
           \/ IsDict(c) /\ ~Has(c, "message") /\ ~Has(c, "text")

\* C10 as stated: for a successful response whose body matches none of the
\* documented shapes the normalization yields the stringified dump of the
\* whole body.
C10_Original ==
  (Answered /\ NoShape(aq.resp.body)) =>
    Normalize(aq.resp.body) = PyStr(aq.resp.body)

\* opener, inner text and closer are the fences and the text between them:
\* the opener is the longest one the text begins with, and the trimmed inner
\* text neither begins nor ends with a fence of its own
FenceParse(o, x, c) ==
  /\ ~(o = Fence /\ StartsWith(x, "sql"))
  /\ ~StartsWith(Strip(x), Fence)
  /\ ~EndsWith(Strip(x), Fence)

C12_PromptHoldsInput ==
  fn = "prompt" =>
    /\ out # ""
    /\ Contains(out, arg)
    /\ \E i \in 1..(Len(out) - Len(arg) + 1) :
         /\ SubSeq(out, i, i + Len(arg) - 1) = arg
         /\ SubSeq(out, 1, i - 1) = PromptHead
         /\ SubSeq(out, i + Len(arg), Len(out)) = PromptTail

\* the prompt for a DDL with white space around it
C12_Witness ==
  /\ fn = "prompt"
  /\ arg = " " \o Ddl \o "\n"
  /\ Len(out) = Len(PromptHead) + Len(Ddl) + 2 + Len(PromptTail)

\* the phrases of the summarizer in the order of its checklist: types,
\* identity, defaults, function renames, constraints, platform-specific
\* clauses, output-format markers
Checklist ==
  <<"VARCHAR -> STRING", "Preserved VARCHAR types", "CHAR -> VARCHAR",
    "TEXT -> VARCHAR/STRING",
    "IDENTITY -> GENERATED ALWAYS AS IDENTITY", "Converted IDENTITY columns",
    "Preserved DEFAULT values in CREATE TABLE",
    "getdate() -> CURRENT_TIMESTAMP()", "getutcdate() -> CURRENT_TIMESTAMP()",
    "SYSDATE -> CURRENT_TIMESTAMP()",
    "Preserved PRIMARY KEY", "Removed FOREIGN KEY (not supported)",
    "Removed UNIQUE constraints (not supported)",
    "Removed CHECK constraints (not supported)",
    "Removed DISTKEY (Redshift-specific)", "Removed SORTKEY (Redshift-specific)",
    "Removed DISTSTYLE (Redshift-specific)",
    "Removed CLUSTERED/NONCLUSTERED (SQL Server-specific)",
    "Added USING DELTA", "Added IDENTITY columns support",
    "Added column defaults support">>

FallbackPhrase == "Converted to Databricks SQL format"

\* the phrases of a summary: the pieces between its separators "; "
Phrases(summary) ==
  LET cuts == {i \in 1..(Len(summary) - 1) : SubSeq(summary, i, i + 1) = "; "}
      n == Cardinality(cuts)
      cut(k) == IF k = 0 THEN 0 - 1
                ELSE IF k = n + 1 THEN Len(summary) + 1
                ELSE CHOOSE i \in cuts : Cardinality({j \in cuts : j < i}) = k - 1
  IN [k \in 1..(n + 1) |-> SubSeq(summary, cut(k - 1) + 2, cut(k) - 1)]

\* the place of a phrase in the checklist, 0 when it is not in it
Place(phrase) ==
  IF \E k \in 1..Len(Checklist) : Checklist[k] = phrase
    THEN CHOOSE k \in 1..Len(Checklist) : Checklist[k] = phrase
    ELSE 0

\* C13: the summary is a function of the (original, converted) pair alone:
\* the phrases of the matched rules joined by "; ", in the fixed order of the
\* checklist, and the single fallback phrase "Converted to Databricks SQL
\* format" if and only if no rule matched.
C13_SummaryInChecklistOrder ==
  fn = "summary" =>
    LET phrases == Phrases(out)
        matched == Changes(arg[1], arg[2])
    IN /\ out = analyze_conversion_changes(arg[1], arg[2])
       /\ (out = FallbackPhrase) <=> (matched = <<>>)
       /\ matched # <<>> =>
            /\ phrases = matched
            /\ \A i \in 1..Len(phrases) : Place(phrases[i]) > 0
            /\ \A i \in 1..(Len(phrases) - 1) :
                 Place(phrases[i]) < Place(phrases[i + 1])

\* a summary of four phrases, from a type rule to the format marker
C13_Witness ==
  /\ fn = "summary"
  /\ arg = <<Ddl, DeltaDdl>>
  /\ out = "Preserved VARCHAR types; CHAR -> VARCHAR; IDENTITY -> GENERATED ALWAYS AS IDENTITY; Added USING DELTA"

\* phrase is one of the phrases of the summary
InSummary(phrase, summary) ==
  \E k \in 1..Len(Phrases(summary)) : Phrases(summary)[k] = phrase

\* a and b are the same character, or the two cases of one letter
SameLetter(a, b) ==
  \/ a = b
  \/ \E k \in 1..26 :
       {a, b} = {SubSeq(Lower, k, k), SubSeq(Caps, k, k)}

\* word occurs in text, compared case-insensitively
Occurs(word, text) ==
  \E i \in 1..(Len(text) - Len(word) + 1) :
    \A j \in 1..Len(word) :
      SameLetter(SubSeq(text, i + j - 1, i + j - 1), SubSeq(word, j, j))

\* C14 as stated: each constraint-removal phrase (foreign key, uniqueness,
\* check) is in the summary if and only if the constraint keyword occurs in
\* the original and does not occur in the converted text, compared
\* case-insensitively; a constraint still present is never reported removed.
C14_Original ==
  fn = "summary" =>
    /\ InSummary("Removed FOREIGN KEY (not supported)", out)
         <=> (Occurs("FOREIGN KEY", arg[1]) /\ ~Occurs("FOREIGN KEY", arg[2]))
    /\ InSummary("Removed UNIQUE constraints (not supported)", out)
         <=> (Occurs("UNIQUE", arg[1]) /\ ~Occurs("UNIQUE", arg[2]))
    /\ InSummary("Removed CHECK constraints (not supported)", out)
         <=> (Occurs("CHECK", arg[1]) /\ ~Occurs("CHECK", arg[2]))

\* C15: compared case-insensitively, the summary holds "IDENTITY -> GENERATED
\* ALWAYS AS IDENTITY" when the original holds IDENTITY( and the converted
\* GENERATED ALWAYS AS IDENTITY, "getdate() -> CURRENT_TIMESTAMP()" when the
\* original holds GETDATE() and the converted CURRENT_TIMESTAMP(), "Added
\* USING DELTA" when the converted holds USING DELTA, "Added IDENTITY columns
\* support" when the converted holds TBLPROPERTIES and names identityColumns;
\* the two identity phrases exclude each other, and so do the two VARCHAR
\* phrases.
C15_ConversionPhrases ==
  fn = "summary" =>
    /\ (Occurs("IDENTITY(", arg[1]) /\ Occurs("GENERATED ALWAYS AS IDENTITY", arg[2]))
         => InSummary("IDENTITY -> GENERATED ALWAYS AS IDENTITY", out)
    /\ (Occurs("GETDATE()", arg[1]) /\ Occurs("CURRENT_TIMESTAMP()", arg[2]))
         => InSummary("getdate() -> CURRENT_TIMESTAMP()", out)
    /\ Occurs("USING DELTA", arg[2]) => InSummary("Added USING DELTA", out)
    /\ (Occurs("TBLPROPERTIES", arg[2]) /\ Occurs("identityColumns", arg[2]))
         => InSummary("Added IDENTITY columns support", out)
    /\ ~(/\ InSummary("IDENTITY -> GENERATED ALWAYS AS IDENTITY", out)
         /\ InSummary("Converted IDENTITY columns", out))
    /\ ~(/\ InSummary("VARCHAR -> STRING", out)
         /\ InSummary("Preserved VARCHAR types", out))

\* a lower-case pair: getdate() became current_timestamp(), USING DELTA added
C15_Witness ==
  /\ fn = "summary"
  /\ arg[1] = "create table t (a char(3), b text, c int default 0, d date default getdate())"
  /\ arg[2] = "create table t (a string, d date default current_timestamp()) using delta"
  /\ InSummary("getdate() -> CURRENT_TIMESTAMP()", out)
  /\ InSummary("Added USING DELTA", out)

\* the converted content of the row is real converted text: not missing, not
\* empty, not one of the two sentinels
RealText(row) ==
  /\ row.Converted.t = "str"
  /\ row.Converted.v \notin {"", FailureSentinel, NoContentSentinel}

\* C16 as stated: the archive holds exactly one entry for every record whose
\* converted content is real converted text and none for a record whose
\* converted content is empty or a sentinel.
C16_Original ==
  fn = "zip" =>
    /\ Len(out) = Cardinality({i \in 1..Len(arg) : RealText(arg[i])})
    /\ \A i \in 1..Len(arg) :
         ~RealText(arg[i]) =>
           \A k \in 1..Len(out) :
             arg[i].Converted.t = "str" => out[k][2] # arg[i].Converted.v

\* name is the file name without its last extension
IsBaseOf(base, filename) ==
  IF \E i \in 1..Len(filename) : SubSeq(filename, i, i) = "."
    THEN \E i \in 1..Len(filename) :
           /\ SubSeq(filename, i, i) = "."
           /\ \A j \in (i + 1)..Len(filename) : SubSeq(filename, j, j) # "."
           /\ base = SubSeq(filename, 1, i - 1)
    ELSE base = filename

\* the entry is the one of the row: its name is the base of the row's file
\* name followed by _converteddbsqlcode.sql, its content the converted text
EntryOf(entry, row) ==
  /\ row.Converted.t = "str"
  /\ entry[2] = row.Converted.v
  /\ \E n \in 0..Len(row.Filename) :
       /\ IsBaseOf(SubSeq(row.Filename, 1, n), row.Filename)
       /\ entry[1] = SubSeq(row.Filename, 1, n) \o "_converteddbsqlcode.sql"

\* C17: every entry of the archive is named <base>_converteddbsqlcode.sql,
\* <base> being the record's file name without its last extension (the whole
\* name when it has no dot), and holds that record's converted text verbatim;
\* the entries are in record order; the archive is a function of the table.
C17_EntriesNamedInOrder ==
  fn = "zip" =>
    /\ out = create_download_zip(arg)
    /\ \E rec \in [1..Len(out) -> 1..Len(arg)] :
         /\ \A k \in 1..Len(out) : EntryOf(out[k], arg[rec[k]])
         /\ \A k \in 1..(Len(out) - 1) : rec[k] < rec[k + 1]

\* an archive of two entries: a name with two dots and a name without dot
C17_Witness ==
  /\ fn = "zip"
  /\ Len(arg) = 2
  /\ arg[1].Filename = "b.v2.sql"
  /\ arg[2].Filename = "noext"
  /\ out = << <<"b.v2_converteddbsqlcode.sql", "S">>,
              <<"noext_converteddbsqlcode.sql", "S">> >>

\* C18 as stated: in a batch run progress is reported for each record,
\* skipped ones included, as (records processed so far)/(total records); the
\* reported values never decrease and the last value of a completed run is
\* total/total.  (The report of a record may come when its processing starts.)
C18_Original ==
  InRun =>
    /\ \A k \in 1..Len(progress) : progress[k][2] = Len(updated_df)
    /\ \A k \in 1..(Len(progress) - 1) : progress[k][1] <= progress[k + 1][1]
    /\ \A i \in Rows :
         results[i].t # "notyet" => \E k \in 1..Len(progress) : progress[k][1] = i
    /\ pc = "done" =>
         /\ progress # <<>>
         /\ progress[Len(progress)][1] = Len(updated_df)

\* the contents a file may have when it can be read
ReadableContents == {c.v : c \in {d \in FileContents : d.t = "str"}}

\* a step that stores a newly loaded table
C19_LoadStep ==
  /\ pc = "idle"
  /\ pc' = "idle"
  /\ file_data_df' # file_data_df

\* the stored table after a load holds one fresh row per listed file
C19_Fresh ==
  C19_LoadStep =>
    /\ Len(file_data_df') \in 1..MaxFiles
    /\ \A i \in 1..Len(file_data_df') :
         /\ file_data_df'[i].Filename = FileNames[i]
         /\ file_data_df'[i].Converted = ""
         /\ file_data_df'[i].Comments = ""
         /\ file_data_df'[i].status = "Pending"
         /\ file_data_df'[i].Content \in ReadableContents \cup {ReadErrorSentinel}

\* a record of a failed read keeps the sentinel through a batch run, which
\* makes no call for it and ends with the record Skipped
C19_ReadErrorSkipped ==
  InRun =>
    \A i \in Rows :
      before[i].Content = ReadErrorSentinel =>
        /\ updated_df[i].Content = ReadErrorSentinel
        /\ calls[i] = 0
        /\ pc = "done" =>
             /\ file_data_df[i].Content = ReadErrorSentinel
             /\ file_data_df[i].status = "Skipped"

\* C19: loading all files replaces the stored table as a whole: one record
\* per listed file, in listing order, each with empty converted content and
\* empty summary whatever an earlier batch run had stored; a file whose read
\* failed yields a record with the read-error sentinel as content, which is
\* not read again and which a later batch run marks Skipped.
C19_LoadReplaces == [][C19_Fresh]_vars /\ []C19_ReadErrorSkipped

\* a finished batch run over a freshly loaded table whose second file could
\* not be read
C19_Witness ==
  /\ pc = "done"
  /\ Len(before) = 2
  /\ before[1] = Row("a.sql", Ddl, "", "", "Pending")
  /\ before[2] = Row("b.v2.sql", ReadErrorSentinel, "", "", "Pending")
  /\ file_data_df[2].status = "Skipped"
  /\ file_data_df[2].Content = ReadErrorSentinel

\* the stored token is absent, or a non-empty string without white space
\* around it
C20_TokenWellFormed ==
  \/ databricks_token.t = "null"
  \/ /\ databricks_token.t = "str"
     /\ databricks_token.v # ""
     /\ Strip(databricks_token.v) = databricks_token.v

\* without a token no batch run is under way, and a connection test has
\* failed at once, without a request
C20_AbsentTokenFailsSafe ==
  databricks_token.t = "null" =>
    /\ pc \in {"idle", "test"}
    /\ inflight = 0
    /\ pc = "test" =>
         /\ aq.stage = "returned"
         /\ aq.ret.t = "null"
         /\ posts = 0

\* a step that changes the stored token removes it, or stores the trimmed
\* value of an input that is not blank
C20_TokenStep ==
  (\/ databricks_token'.t # databricks_token.t
   \/ databricks_token.t = "str" /\ databricks_token'.v # databricks_token.v) =>
    /\ pc = "idle"
    /\ \/ databricks_token'.t = "null" /\ databricks_token.t = "str"
       \/ /\ databricks_token'.t = "str"
          /\ \E token_input \in TokenInputs :
               /\ Strip(token_input) # ""
               /\ databricks_token'.v = Strip(token_input)

\* C20: after any Save Token and Clear Token actions the stored credential is
\* absent or a non-empty string without surrounding white space: a blank
\* input is rejected and changes nothing, any other input is stored trimmed,
\* Clear removes the token; while the token is absent the batch conversion
\* cannot be started and an inference attempt fails with an error.
C20_TokenLifecycle ==
  /\ []C20_TokenWellFormed
  /\ []C20_AbsentTokenFailsSafe
  /\ [][C20_TokenStep]_vars

\* the connection test has failed without a token while a table is loaded
C20_Witness ==
  /\ pc = "test"
  /\ databricks_token.t = "null"
  /\ file_data_df # <<>>
  /\ aq.stage = "returned"
  /\ aq.ret.t = "null"
  /\ posts = 0

\* C21: each platform-specific removal phrase (DISTKEY, SORTKEY, DISTSTYLE,
\* CLUSTERED/NONCLUSTERED) is in the summary if and only if its keyword occurs
\* in the original text, compared case-insensitively; the converted text has
\* no influence, so the clause is reported as removed also when the converted
\* text still holds it.
C21_PlatformPhrases ==
  fn = "summary" =>
    /\ InSummary("Removed DISTKEY (Redshift-specific)", out)
         <=> Occurs("DISTKEY", arg[1])
    /\ InSummary("Removed SORTKEY (Redshift-specific)", out)
         <=> Occurs("SORTKEY", arg[1])
    /\ InSummary("Removed DISTSTYLE (Redshift-specific)", out)
         <=> Occurs("DISTSTYLE", arg[1])
    /\ InSummary("Removed CLUSTERED/NONCLUSTERED (SQL Server-specific)", out)
         <=> (Occurs("CLUSTERED", arg[1]) \/ Occurs("NONCLUSTERED", arg[1]))

\* a lower-case original with distkey, and a converted text that still holds
\* DISTKEY: the removal is reported
C21_Witness ==
  /\ fn = "summary"
  /\ arg[1] = "create nonclustered index i on t(a); create table t (a int) distkey(a)"
  /\ Occurs("DISTKEY", arg[2])
  /\ InSummary("Removed DISTKEY (Redshift-specific)", out)
  /\ InSummary("Removed CLUSTERED/NONCLUSTERED (SQL Server-specific)", out)
  /\ ~InSummary("Removed SORTKEY (Redshift-specific)", out)

\* the stored table is the result of a completed batch run
C22_Processed ==
  /\ file_data_df # <<>>
  /\ \/ pc = "done"
     \/ pc = "idle" /\ \A i \in 1..Len(file_data_df) : file_data_df[i].status # "Pending"

\* C22: after a completed batch run over a non-empty table the converted
\* content of every record is non-empty (real text, the failure sentinel or
\* the "no content" sentinel); so the conversion status shown reads
\* total/total and the download is enabled, whatever the number of records
\* that ended Converted, zero included.
C22_AllShownConverted ==
  /\ pc = "done" => file_data_df # <<>>
  /\ C22_Processed =>
       /\ \A i \in 1..Len(file_data_df) :
            /\ Strip(file_data_df[i].Converted) # ""
            /\ \/ file_data_df[i].status = "Converted"
               \/ file_data_df[i].Converted = FailureSentinel
               \/ file_data_df[i].Converted = NoContentSentinel
       /\ converted_files(file_data_df) = total_files(file_data_df)
       /\ has_conversions(file_data_df)
  /\ (pc = "idle" /\ file_data_df # <<>> /\ ~C22_Processed) =>
       /\ converted_files(file_data_df) = 0
       /\ ~has_conversions(file_data_df)

\* the table is shown again after a run that converted none of its two
\* records: one failed, one was skipped, yet 2/2 is shown and the download
\* is enabled
C22_Witness ==
  /\ pc = "idle"
  /\ Len(file_data_df) = 2
  /\ file_data_df[1].status = "Failed"
  /\ file_data_df[2].status = "Skipped"
  /\ converted_files(file_data_df) = 2
  /\ has_conversions(file_data_df)

====
